---- MODULE Spec2Model ----
(***************************************************************************)
(* Model of examples/qr_scanner/qr_scanner_gui.py: the QRScannerApp        *)
(* session (Tk event loop, camera handle, decode loop, bounded history).   *)
(*                                                                         *)
(* The program is single-threaded: every handler runs to completion,       *)
(* except that the modal dialogs (messagebox.showinfo / showerror) block   *)
(* the handler inside a nested event loop.  The variable dialog is the     *)
(* position of a handler blocked in such a dialog.                         *)
(***************************************************************************)
EXTENDS Integers, Sequences, FiniteSets, TLC

VARIABLES
    pc,               \* "init" (QRScannerApp.__init__ not yet run), "mainloop", "exited" (sys.exit(1))
    destroyed,        \* master.destroy() has been called
    dialog,           \* "none", "info" (showinfo, line 86), "error" (showerror, line 134)
    running,          \* self.running
    video,            \* self.video: the VideoCapture object bound to it
    retired,          \* the VideoCapture objects self.video was bound to before, oldest first
    last_result,      \* self.last_result: <<>> is None, <<t>> is the string t
    status_var,       \* self.status_var
    decoded_history,  \* self.decoded_history
    history_size,     \* self.history_size
    frame_label,      \* the image shown by self.frame_label
    after,            \* number of update_frame callbacks pending in master.after
    ev,               \* the last handler run, its inputs and the library calls it made
    appended,         \* every text ever added by append_history, in order
    prevNewest,       \* newest decoded text of the last successfully read frame (<<>>: none)
    allBlank          \* every frame read so far was read successfully and decoded to nothing

vars == <<pc, destroyed, dialog, running, video, retired, last_result, status_var,
          decoded_history, history_size, frame_label, after, ev, appended,
          prevNewest, allBlank>>

(***************************************************************************)
(* Bounds of the model.                                                    *)
(***************************************************************************)
MaxOpens == 4          \* VideoCapture objects created in one session
MaxHistorySize == 2    \* history_size ranges over 0..MaxHistorySize
MaxCodes == 2          \* QR codes the detector reports in one frame

(***************************************************************************)
(* Program constants.                                                      *)
(***************************************************************************)
\* display_scale = 0.5 = DisplayScaleNum / DisplayScaleDen
DisplayScaleNum == 1
DisplayScaleDen == 2
\* decode_scale = 4.0 = DecodeScaleNum / DecodeScaleDen
DecodeScaleNum == 4
DecodeScaleDen == 1

StatusWaiting == "Waiting for QR code..."
StatusReadFailed == "Camera read failed"
StatusDetected == "QR detected - camera stopped"

(***************************************************************************)
(* Inputs: what the camera and the detector hand to one tick.              *)
(***************************************************************************)
Texts == {"a", "b"}
DecodedInfos == Texts \cup {""}

\* the polygon of the i-th code of a frame, in decode-resolution coordinates
PolygonAt(i) ==
    << <<9 * i, 8 * i>>, <<9 * i + 22, 8 * i + 2>>, <<9 * i + 21, 8 * i + 25>>, <<9 * i - 2, 8 * i + 23>> >>

SeqsOf(S, n) == UNION { [1..k -> S] : k \in 1..n }

\* video.read() returned ok = False
FailedFrame == [ok |-> FALSE, retval |-> FALSE, decoded_info |-> <<>>, pts |-> <<>>]

\* video.read() returned a frame in which detectAndDecodeMulti finds nothing
EmptyFrame == [ok |-> TRUE, retval |-> FALSE, decoded_info |-> <<>>, pts |-> <<>>]

\* frames in which detectAndDecodeMulti reports codes (some may decode to "")
CodeFrames ==
    { [ok |-> TRUE, retval |-> TRUE, decoded_info |-> d,
       pts |-> [i \in 1..Len(d) |-> PolygonAt(i)]] : d \in SeqsOf(DecodedInfos, MaxCodes) }

Frames == {FailedFrame, EmptyFrame} \cup CodeFrames

(***************************************************************************)
(* Helpers.                                                                *)
(***************************************************************************)
Last(s) == s[Len(s)]

Max(a, b) == IF a >= b THEN a ELSE b
Min(a, b) == IF a <= b THEN a ELSE b

\* Python's s[start:] for a list s
PySliceFrom(s, start) ==
    LET n == Len(s)
        lo == IF start < 0 THEN Max(n + start, 0) ELSE Min(start, n)
    IN  SubSeq(s, lo + 1, n)

\* a VideoCapture object: isOpened(), and how often it was opened and released
NewCapture(opened) ==
    [bound |-> TRUE, isOpened |-> opened, opens |-> IF opened THEN 1 ELSE 0,
     releases |-> 0, stale |-> 0]

\* self.video before open_camera binds it
Unbound == [bound |-> FALSE, isOpened |-> FALSE, opens |-> 0, releases |-> 0, stale |-> 0]

\* VideoCapture.release()
Release(v) ==
    IF v.isOpened
        THEN [v EXCEPT !.isOpened = FALSE, !.releases = @ + 1]
        ELSE [v EXCEPT !.stale = @ + 1]

(***************************************************************************)
(* The program's fields as one record, so that a handler is an operator    *)
(* from the record before it runs to the record after it returns (or       *)
(* blocks in a modal dialog).  calls is the sequence of library calls the  *)
(* handler has made.                                                       *)
(***************************************************************************)
Self ==
    [running |-> running, video |-> video, retired |-> retired,
     last_result |-> last_result, status_var |-> status_var,
     decoded_history |-> decoded_history, history_size |-> history_size,
     frame_label |-> frame_label, after |-> after, dialog |-> dialog,
     destroyed |-> destroyed, appended |-> appended, calls |-> <<>>, memo |-> <<>>]

Call(self, name) == [self EXCEPT !.calls = Append(@, name)]

\* decode_qr without the "if text" filter of line 123
decode_qr_unfiltered(f) ==
    IF f.retval
        THEN [texts |-> f.decoded_info, points |-> <<f.pts>>]
        ELSE [texts |-> <<>>, points |-> <<>>]

\* decode_qr: the non-empty decoded texts, and the polygons (<<>> is None, <<p>> is p)
decode_qr(f) ==
    IF f.retval
        THEN [texts |-> SelectSeq(f.decoded_info, LAMBDA t : t # ""), points |-> <<f.pts>>]
        ELSE [texts |-> <<>>, points |-> <<>>]

\* the trimming of append_history: decoded_history[-history_size:] once the cap is exceeded
TrimHistory(h, size) ==
    IF Len(h) > size THEN PySliceFrom(h, 0 - size) ELSE h

\* append_history on the list alone
append_history(h, text, size) ==
    IF text # "" THEN TrimHistory(Append(h, text), size) ELSE h

\* the scale factor taken the wrong way round: decode_scale / display_scale
ScaleCoordInverted(x) ==
    (x * DisplayScaleDen * DecodeScaleNum) \div (DisplayScaleNum * DecodeScaleDen)

\* (bbox * scale_factor).astype(int) on one coordinate; scale_factor is
\* display_scale / decode_scale and astype(int) truncates
ScaleCoord(x) ==
    (x * DisplayScaleNum * DecodeScaleDen) \div (DisplayScaleDen * DecodeScaleNum)

ScalePolygon(bbox) == [i \in 1..Len(bbox) |-> <<ScaleCoord(bbox[i][1]), ScaleCoord(bbox[i][2])>>]

\* the cv2.line calls for one polygon: point i to point (i + 1) % len
Outline(pts) == [i \in 1..Len(pts) |-> <<pts[i], pts[(i % Len(pts)) + 1]>>]

\* lines 91-114: the display frame with the outlines drawn on it
Render(points) ==
    [shown |-> TRUE,
     outlines |-> IF points = <<>> THEN <<>>
                  ELSE [k \in 1..Len(points[1]) |-> Outline(ScalePolygon(points[1][k]))]]

NoImage == [shown |-> FALSE, outlines |-> <<>>]

\* a new detection that leaves the camera open (lines 84-85 missing)
DetectKeepsCamera(self, newest) ==
    LET s1 == [self EXCEPT !.last_result = <<newest>>,
                           !.decoded_history = append_history(@, newest, self.history_size),
                           !.appended = IF newest # "" THEN Append(@, newest) ELSE @,
                           !.status_var = StatusDetected,
                           !.running = FALSE]
    IN  Call([s1 EXCEPT !.dialog = "info"], "showinfo")

\* lines 79-87: a new detection
Detect(self, newest) ==
    LET s1 == [self EXCEPT !.last_result = <<newest>>,
                           !.decoded_history = append_history(@, newest, self.history_size),
                           !.appended = IF newest # "" THEN Append(@, newest) ELSE @,
                           !.status_var = StatusDetected,
                           !.running = FALSE]
        s2 == IF s1.video.isOpened
                  THEN Call([s1 EXCEPT !.video = Release(@)], "release")
                  ELSE s1
    IN  Call([s2 EXCEPT !.dialog = "info"], "showinfo")

\* lines 91-116: show the frame and schedule the next tick
Display(self, points) ==
    LET s1 == Call([self EXCEPT !.frame_label = Render(points)], "render")
    IN  IF s1.running THEN Call([s1 EXCEPT !.after = @ + 1], "after10") ELSE s1

\* a failed read that schedules no retry (line 63 missing)
ReadFailedNoRetry(self) ==
    [self EXCEPT !.status_var = StatusReadFailed]

\* lines 61-64: the frame could not be read
ReadFailed(self) ==
    Call([self EXCEPT !.status_var = StatusReadFailed, !.after = @ + 1], "after200")

\* a frame was read, with the return of line 87 missing: a detection falls
\* through to the display of the frame
ProcessNoReturn(self, f) ==
    LET d == decode_qr(f)
        s1 == Call(self, "detect")
    IN  IF Len(d.texts) > 0
            THEN IF <<Last(d.texts)>> # s1.last_result
                     THEN Display([Detect(s1, Last(d.texts)) EXCEPT !.dialog = "none"], d.points)
                     ELSE Display(s1, d.points)
            ELSE Display([s1 EXCEPT !.status_var = StatusWaiting], d.points)

\* lines 76-116: a frame was read
Process(self, f) ==
    LET d == decode_qr(f)
        s1 == Call(self, "detect")
    IN  IF Len(d.texts) > 0
            THEN IF <<Last(d.texts)>> # s1.last_result
                     THEN Detect(s1, Last(d.texts))
                     ELSE Display(s1, d.points)
            ELSE Display([s1 EXCEPT !.status_var = StatusWaiting], d.points)

\* update_frame; f is what video.read() and the detector return this time.
\* A VideoCapture that is not open reads (False, None).
update_frame(self, f) ==
    IF ~self.running
        THEN self
        ELSE LET s1 == Call([self EXCEPT !.memo = self.last_result],
                            IF self.video.isOpened THEN "read" ELSE "read_released")
             IN  IF ~(self.video.isOpened /\ f.ok) THEN ReadFailed(s1) ELSE Process(s1, f)

\* open_camera; opened is whether the new VideoCapture isOpened().  The
\* object self.video was bound to goes out of use.
open_camera(self, opened) ==
    LET s1 == Call([self EXCEPT !.retired = IF self.video = Unbound THEN @ ELSE Append(@, self.video),
                                !.video = NewCapture(opened)],
                   IF self.video.isOpened THEN "open_while_open" ELSE "open")
    IN  IF ~opened THEN Call([s1 EXCEPT !.dialog = "error"], "showerror") ELSE s1

\* resume_scan that keeps the memo (line 143 missing)
resume_scan_keeps_memo(self, opened, f) ==
    IF self.running
        THEN self
        ELSE LET s1 == open_camera(self, opened)
             IN  IF ~opened
                     THEN s1
                     ELSE update_frame([s1 EXCEPT !.running = TRUE,
                                                  !.status_var = StatusWaiting], f)

\* resume_scan without the guard of lines 139-140
resume_scan_unguarded(self, opened, f) ==
    LET s1 == open_camera(self, opened)
    IN  IF ~opened
            THEN s1
            ELSE update_frame([s1 EXCEPT !.last_result = <<>>,
                                         !.running = TRUE,
                                         !.status_var = StatusWaiting], f)

\* resume_scan that goes on although open_camera failed (lines 141-142 missing)
resume_scan_ignores_failure(self, opened, f) ==
    IF self.running
        THEN self
        ELSE update_frame([open_camera(self, opened) EXCEPT !.last_result = <<>>,
                                                            !.running = TRUE,
                                                            !.status_var = StatusWaiting], f)

\* resume_scan that also empties the history
resume_scan_clears_history(self, opened, f) ==
    IF self.running
        THEN self
        ELSE LET s1 == open_camera(self, opened)
             IN  IF ~opened
                     THEN s1
                     ELSE update_frame([s1 EXCEPT !.last_result = <<>>,
                                                  !.running = TRUE,
                                                  !.decoded_history = <<>>,
                                                  !.status_var = StatusWaiting], f)

\* resume_scan
resume_scan(self, opened, f) ==
    IF self.running
        THEN self
        ELSE LET s1 == open_camera(self, opened)
             IN  IF ~opened
                     THEN s1
                     ELSE update_frame([s1 EXCEPT !.last_result = <<>>,
                                                  !.running = TRUE,
                                                  !.status_var = StatusWaiting], f)

\* on_close that releases without asking isOpened() (line 159 missing)
on_close_always_releases(self) ==
    LET s1 == Call([self EXCEPT !.video = Release(@)], "release")
        s2 == IF s1.after > 0 THEN Call(s1, "cancel_after") ELSE s1
    IN  Call([s2 EXCEPT !.destroyed = TRUE, !.after = 0], "destroy")

\* on_close that tears the window down but leaves the after callbacks pending
on_close_keeps_ticks(self) ==
    LET s1 == IF self.video.isOpened
                  THEN Call([self EXCEPT !.video = Release(@)], "release")
                  ELSE self
    IN  Call([s1 EXCEPT !.destroyed = TRUE], "destroy")

\* on_close; master.destroy() ends the main loop and deletes the pending
\* after callbacks (tkinter's Misc.destroy deletes the registered commands)
on_close(self) ==
    LET s1 == IF self.video.isOpened
                  THEN Call([self EXCEPT !.video = Release(@)], "release")
                  ELSE self
        s2 == IF s1.after > 0 THEN Call(s1, "cancel_after") ELSE s1
    IN  Call([s2 EXCEPT !.destroyed = TRUE, !.after = 0], "destroy")

\* QRScannerApp.__init__ that goes on although open_camera failed (lines 27-28 missing)
ConstructIgnoresFailure(self, opened, f) ==
    update_frame([open_camera([self EXCEPT !.running = TRUE], opened)
                      EXCEPT !.status_var = StatusWaiting,
                             !.decoded_history = <<>>,
                             !.last_result = <<>>], f)

\* QRScannerApp.__init__
Construct(self, opened, f) ==
    LET s0 == [self EXCEPT !.running = TRUE]
        s1 == open_camera(s0, opened)
    IN  IF ~opened
            THEN s1
            ELSE update_frame([s1 EXCEPT !.status_var = StatusWaiting,
                                         !.decoded_history = <<>>,
                                         !.last_result = <<>>], f)

(***************************************************************************)
(* The state machine.                                                      *)
(***************************************************************************)
Has(calls, name) == \E i \in 1..Len(calls) : calls[i] = name

\* the handler read a frame from the camera / read one successfully
DidRead(r) == Has(r.calls, "read") \/ Has(r.calls, "read_released")
ReadOk(r, f) == Has(r.calls, "read") /\ f.ok

\* the non-empty strings the detector decoded in frame f
FrameTexts(f) == IF f.retval THEN SelectSeq(f.decoded_info, LAMBDA t : t # "") ELSE <<>>

\* the newest decoded text of frame f: <<>> if there is none, else <<t>>
Newest(f) == IF FrameTexts(f) = <<>> THEN <<>> ELSE <<Last(FrameTexts(f))>>

\* the handler op has run from Self to r; f is the frame it was handed
Commit(r, op, f) ==
    /\ running' = r.running
    /\ video' = r.video
    /\ retired' = r.retired
    /\ last_result' = r.last_result
    /\ status_var' = r.status_var
    /\ decoded_history' = r.decoded_history
    /\ history_size' = r.history_size
    /\ frame_label' = r.frame_label
    /\ after' = r.after
    /\ dialog' = r.dialog
    /\ destroyed' = r.destroyed
    /\ appended' = r.appended
    /\ prevNewest' = IF ReadOk(r, f) THEN Newest(f) ELSE prevNewest
    /\ allBlank' = (allBlank /\ (DidRead(r) => ReadOk(r, f) /\ FrameTexts(f) = <<>>))
    /\ ev' = [op |-> op, calls |-> r.calls, memo |-> r.memo,
              frame |-> IF DidRead(r) THEN f ELSE FailedFrame]

NoEvent == [op |-> "none", calls |-> <<>>, memo |-> <<>>, frame |-> FailedFrame]

Init ==
    /\ pc = "init"
    /\ destroyed = FALSE
    /\ dialog = "none"
    /\ running = FALSE
    /\ video = Unbound
    /\ retired = <<>>
    /\ last_result = <<>>
    /\ status_var = ""
    /\ decoded_history = <<>>
    /\ history_size \in 0..MaxHistorySize
    /\ frame_label = NoImage
    /\ after = 0
    /\ ev = NoEvent
    /\ appended = <<>>
    /\ prevNewest = <<>>
    /\ allBlank = TRUE

\* main: app = QRScannerApp(root, ...), up to the main loop, sys.exit or a dialog
Start ==
    /\ pc = "init"
    /\ dialog = "none"
    /\ \E opened \in BOOLEAN, f \in Frames :
         /\ Commit(Construct(Self, opened, f), "init", f)
         /\ pc' = IF opened THEN "mainloop" ELSE "init"

\* a pending master.after callback fires
Tick ==
    /\ pc = "mainloop"
    /\ after > 0
    /\ \E f \in Frames :
         Commit(update_frame([Self EXCEPT !.after = @ - 1], f), "tick", f)
    /\ UNCHANGED pc

\* the user clicks "Resume Scan"; a modal dialog keeps the button from being clicked
Resume ==
    /\ pc = "mainloop"
    /\ ~destroyed
    /\ dialog = "none"
    /\ running \/ Len(retired) + 1 < MaxOpens
    /\ \E opened \in BOOLEAN, f \in Frames :
         Commit(resume_scan(Self, opened, f), "resume", f)
    /\ UNCHANGED pc

\* the user closes the window (WM_DELETE_WINDOW), also while a dialog is up
Close ==
    /\ ~destroyed
    /\ \/ pc = "mainloop"
       \/ pc = "init" /\ dialog = "error"
    /\ Commit(on_close(Self), "close", FailedFrame)
    /\ UNCHANGED pc

\* the user dismisses the dialog: the blocked handler returns; at startup
\* (line 28) it goes on to sys.exit(1)
Dismiss ==
    /\ dialog # "none"
    /\ Commit([Self EXCEPT !.dialog = "none"], "dismiss", FailedFrame)
    /\ pc' = IF pc = "init" THEN "exited" ELSE pc

Next == Start \/ Tick \/ Resume \/ Close \/ Dismiss

Spec == Init /\ [][Next]_vars

TypeOK ==
    /\ pc \in {"init", "mainloop", "exited"}
    /\ destroyed \in BOOLEAN
    /\ dialog \in {"none", "info", "error"}
    /\ running \in BOOLEAN
    /\ last_result \in {<<>>} \cup {<<t>> : t \in Texts}
    /\ status_var \in {"", StatusWaiting, StatusReadFailed, StatusDetected}
    /\ history_size \in 0..MaxHistorySize
    /\ after \in Nat

(***************************************************************************)
(* Vocabulary of the properties.  A step "runs a tick body" when its       *)
(* handler (a timer tick, or the update_frame call that ends __init__ and  *)
(* resume_scan) reaches video.read(); ev' then holds the frame it was      *)
(* handed and the memo it started with.                                    *)
(***************************************************************************)
\* the step read a frame successfully
StepReadOk == Has(ev'.calls, "read") /\ ev'.frame.ok

\* the step read a frame successfully and it decoded to at least one non-empty text
StepDecoded == StepReadOk /\ FrameTexts(ev'.frame) # <<>>

\* the step's handler scheduled a tick
StepScheduled == Has(ev'.calls, "after10") \/ Has(ev'.calls, "after200")

\* the history after the step is the one before with t added at the end and
\* possibly some of the oldest entries dropped
AppendedOne(t) ==
    /\ appended' = Append(appended, t)
    /\ \E k \in 1..(Len(decoded_history) + 1) :
         decoded_history' = SubSeq(Append(decoded_history, t), k, Len(decoded_history) + 1)

\* every VideoCapture object of the session
Handles == Append(retired, video)

\* the last n entries of s
LastN(s, n) == SubSeq(s, Len(s) - n + 1, Len(s))

(***************************************************************************)
(* C1: a tick that reads a frame successfully and decodes a non-empty text *)
(* different from the memo appends exactly one history entry, sets the     *)
(* detected status, pauses (running = false), releases the camera and      *)
(* schedules no further tick.                                              *)
(***************************************************************************)
C1_NewDetectionPauses ==
    [][ (StepDecoded /\ Newest(ev'.frame) # ev'.memo) =>
          /\ AppendedOne(Last(FrameTexts(ev'.frame)))
          /\ status_var' = StatusDetected
          /\ running' = FALSE
          /\ Has(ev'.calls, "release")
          /\ video'.isOpened = FALSE
          /\ \A i \in 1..Len(Handles') : Handles'[i].isOpened = FALSE
          /\ ~StepScheduled
          /\ after' = 0 ]_vars

\* a timer tick has made a detection while the history already held an entry
C1_Witness ==
    /\ ev.op = "tick"
    /\ Has(ev.calls, "showinfo")
    /\ Len(appended) >= 2
    /\ status_var = StatusDetected
    /\ ~running

(***************************************************************************)
(* C2: the history is never longer than the configured history_size.       *)
(***************************************************************************)
C2_HistoryWithinCap == Len(decoded_history) <= history_size

(***************************************************************************)
(* C3: the history is the last min(k, N) of the k texts appended so far,   *)
(* in insertion order (N = history_size).                                  *)
(***************************************************************************)
C3_HistoryIsLastN == decoded_history = LastN(appended, Min(Len(appended), history_size))

(***************************************************************************)
(* C4 as stated: when a successfully read frame decodes to the same text   *)
(* as the successfully read frame before it, no history entry is added,    *)
(* the frame is displayed and scanning continues.                          *)
(***************************************************************************)
C4_SecondFrameIgnored ==
    [][ (StepDecoded /\ Newest(ev'.frame) = prevNewest) =>
          /\ appended' = appended
          /\ decoded_history' = decoded_history
          /\ Has(ev'.calls, "render")
          /\ running'
          /\ StepScheduled ]_vars

(***************************************************************************)
(* C4 amended: when a successfully read frame decodes to the same text as  *)
(* the successfully read frame before it, the memo is empty when it is     *)
(* read (the first frame paused the session and only a successful resume,  *)
(* which clears the memo, lets the second be read), so it is a new         *)
(* detection: one more history entry, the session pauses again and no tick *)
(* is scheduled.                                                           *)
(***************************************************************************)
C4_SecondFrameDetectedAgain ==
    [][ (StepDecoded /\ Newest(ev'.frame) = prevNewest) =>
          /\ ev'.memo = <<>>
          /\ AppendedOne(Last(FrameTexts(ev'.frame)))
          /\ running' = FALSE
          /\ ~StepScheduled ]_vars

\* two successive successfully read frames decoded to the same text, and both are in the history
C4_Witness ==
    /\ Has(ev.calls, "read")
    /\ Len(appended) >= 2
    /\ appended[Len(appended)] = appended[Len(appended) - 1]
    /\ Newest(ev.frame) = <<Last(appended)>>
    /\ Len(decoded_history) >= 2
    /\ decoded_history[Len(decoded_history)] = decoded_history[Len(decoded_history) - 1]

(***************************************************************************)
(* C5: a successful resume clears the memo, so a frame read after it that  *)
(* decodes to the text of the detection that caused the pause is a new     *)
(* detection: a history entry is appended and the session pauses again.    *)
(***************************************************************************)
C5_ResumeForgetsLastResult ==
    [][ /\ (ev'.op = "resume" /\ Has(ev'.calls, "open") /\ ~Has(ev'.calls, "showerror")) =>
              /\ Has(ev'.calls, "read")
              /\ ev'.memo = <<>>
        /\ (StepDecoded /\ appended # <<>> /\ Newest(ev'.frame) = <<Last(appended)>>) =>
              /\ AppendedOne(Last(appended))
              /\ running' = FALSE
              /\ dialog' = "info" ]_vars

\* after a resume, a timer tick has detected the text of the previous detection again
C5_Witness ==
    /\ ev.op = "tick"
    /\ Has(ev.calls, "showinfo")
    /\ Len(appended) >= 2
    /\ appended[Len(appended)] = appended[Len(appended) - 1]
    /\ Len(retired) >= 1
    /\ ~running

(***************************************************************************)
(* C6: as long as every frame since the session started was read           *)
(* successfully and decoded to no non-empty text, the status is the        *)
(* waiting message, the history is empty, the session is scanning and the  *)
(* camera is held.                                                         *)
(***************************************************************************)
C6_BlankFramesKeepWaiting ==
    (pc = "mainloop" /\ allBlank /\ ~destroyed) =>
        /\ status_var = StatusWaiting
        /\ decoded_history = <<>>
        /\ appended = <<>>
        /\ running
        /\ video.isOpened
        /\ dialog = "none"

\* a timer tick has read a frame with a code that decodes to the empty string, after only blank frames
C6_Witness ==
    /\ pc = "mainloop"
    /\ allBlank
    /\ ~destroyed
    /\ ev.op = "tick"
    /\ Has(ev.calls, "read")
    /\ ev.frame.retval

(***************************************************************************)
(* C7: at most one camera handle is open at any time, open_camera is never *)
(* called while a handle is open, and no frame is read from a released     *)
(* handle.                                                                 *)
(***************************************************************************)
C7_ExclusiveCamera ==
    /\ Cardinality({i \in 1..Len(Handles) : Handles[i].isOpened}) <= 1
    /\ ~Has(ev.calls, "open_while_open")
    /\ ~Has(ev.calls, "read_released")
    /\ (Has(ev.calls, "read") /\ ev.op = "tick") =>
           (video.isOpened \/ Has(ev.calls, "release"))

\* the camera has been opened, released and opened again, and a timer tick reads from it
C7_Witness ==
    /\ Len(retired) >= 2
    /\ retired[Len(retired)].opens = 1
    /\ retired[Len(retired)].releases = 1
    /\ video.isOpened
    /\ ev.op = "tick"
    /\ Has(ev.calls, "read")

(***************************************************************************)
(* C8: once the window is closed every handle that was opened has been     *)
(* released exactly once, and release is never called on a handle that is  *)
(* not open.                                                               *)
(***************************************************************************)
C8_ReleasedExactlyOnce ==
    /\ \A i \in 1..Len(Handles) :
         /\ Handles[i].stale = 0
         /\ Handles[i].releases <= Handles[i].opens
    /\ destroyed => \A i \in 1..Len(Handles) : Handles[i].releases = Handles[i].opens

\* the window was closed while paused after a failed resume
C8_Witness ==
    /\ destroyed
    /\ ev.op = "close"
    /\ ~running
    /\ video.opens = 0
    /\ Len(retired) >= 1
    /\ retired[1].opens = 1
    /\ retired[1].releases = 1

\* the window was closed while scanning
C8_WitnessScanning ==
    /\ destroyed
    /\ ev.op = "close"
    /\ running
    /\ video.opens = 1
    /\ video.releases = 1

(***************************************************************************)
(* C9: once the window is closed no tick is pending, no tick body, resume  *)
(* or other handler runs, and nothing of the session changes; all that can *)
(* still happen is that a dialog that was up goes away.                    *)
(***************************************************************************)
C9_CloseIsTerminal ==
    /\ [](destroyed => after = 0)
    /\ [][ destroyed =>
             /\ ev'.op = "dismiss"
             /\ UNCHANGED <<destroyed, running, video, retired, last_result, status_var,
                            decoded_history, history_size, frame_label, after, appended>> ]_vars

\* the window was closed while scanning, when a tick was pending
C9_Witness ==
    /\ destroyed
    /\ ev.op = "close"
    /\ running
    /\ Has(ev.calls, "release")
    /\ Has(ev.calls, "cancel_after")
    /\ Len(retired) >= 1

(***************************************************************************)
(* C10: a tick whose read fails leaves the session as it was (running,     *)
(* camera held, history and memo unchanged, nothing decoded or displayed), *)
(* sets the read-failed status and schedules exactly one retry; so after   *)
(* it one tick is pending.                                                 *)
(***************************************************************************)
C10_ReadFailureRetries ==
    [][ (Has(ev'.calls, "read") /\ ~ev'.frame.ok) =>
          /\ running'
          /\ video'.isOpened
          /\ ev'.op = "tick" => (running /\ video' = video /\ last_result' = last_result)
          /\ last_result' = ev'.memo
          /\ decoded_history' = decoded_history
          /\ appended' = appended
          /\ frame_label' = frame_label
          /\ ~Has(ev'.calls, "detect")
          /\ status_var' = StatusReadFailed
          /\ Cardinality({i \in 1..Len(ev'.calls) : ev'.calls[i] \in {"after10", "after200"}}) = 1
          /\ Has(ev'.calls, "after200")
          /\ after' = 1
          /\ dialog' = "none"
          /\ pc' = "mainloop" ]_vars

\* a timer tick has failed to read, in a session that has detected and resumed before
C10_Witness ==
    /\ ev.op = "tick"
    /\ Has(ev.calls, "after200")
    /\ status_var = StatusReadFailed
    /\ running
    /\ after = 1
    /\ decoded_history # <<>>

(***************************************************************************)
(* C11: a resume whose open_camera fails reports the error and leaves the  *)
(* session paused: running stays false, nothing is read or scheduled, the  *)
(* history, status, memo and displayed frame are unchanged; the resume     *)
(* button can be used again once the error dialog is dismissed.            *)
(***************************************************************************)
C11_FailedResumeStaysPaused ==
    /\ [][ (ev'.op = "resume" /\ ~running /\ video'.opens = 0) =>
             /\ Has(ev'.calls, "showerror")
             /\ dialog' = "error"
             /\ running' = FALSE
             /\ ~Has(ev'.calls, "read") /\ ~Has(ev'.calls, "read_released")
             /\ ~Has(ev'.calls, "detect")
             /\ ~StepScheduled
             /\ after' = 0 /\ after = 0
             /\ UNCHANGED <<decoded_history, appended, status_var, last_result,
                            frame_label, pc, destroyed>> ]_vars
    /\ [][ (ev.op = "resume" /\ dialog = "error" /\ ev'.op = "dismiss") =>
             /\ dialog' = "none"
             /\ pc' = "mainloop"
             /\ running' = FALSE
             /\ UNCHANGED <<decoded_history, status_var, last_result, after, video>> ]_vars

\* a resume failed, its dialog was dismissed, and the next resume failed as well
C11_Witness ==
    /\ ev.op = "resume"
    /\ Has(ev.calls, "showerror")
    /\ dialog = "error"
    /\ ~running
    /\ Len(retired) >= 2
    /\ retired[Len(retired)].opens = 0
    /\ decoded_history # <<>>
    /\ status_var = StatusDetected

(***************************************************************************)
(* C12: when the camera cannot be opened at startup the error is reported  *)
(* and the process exits: the main loop is never entered, no tick is run   *)
(* or scheduled, no frame is read, and nothing happens after the exit.     *)
(***************************************************************************)
C12_FailedStartupExits ==
    /\ [][ (ev'.op = "init" /\ video'.opens = 0) =>
             /\ Has(ev'.calls, "showerror")
             /\ dialog' = "error"
             /\ pc' = "init" ]_vars
    /\ [][ (pc' # "mainloop") =>
             /\ ~Has(ev'.calls, "read") /\ ~Has(ev'.calls, "read_released")
             /\ ~Has(ev'.calls, "detect")
             /\ ~StepScheduled
             /\ after' = 0
             /\ decoded_history' = <<>>
             /\ frame_label' = NoImage ]_vars
    /\ [][ (pc = "init" /\ dialog = "error") =>
             /\ pc' \in {"init", "exited"}
             /\ ev'.op \in {"close", "dismiss"}
             /\ ev'.op = "dismiss" => pc' = "exited" ]_vars
    /\ [][ pc # "exited" ]_vars

\* the camera could not be opened at startup, the dialog was dismissed and the process has exited
C12_Witness ==
    /\ pc = "exited"
    /\ ev.op = "dismiss"
    /\ video.opens = 0
    /\ after = 0
    /\ dialog = "none"

(***************************************************************************)
(* C13: while the session is paused (running = false, after startup) the   *)
(* camera is released and no tick is pending; the session leaves PAUSED    *)
(* only by a resume whose open_camera succeeds, and then it is scanning     *)
(* with the camera open and one tick pending.                              *)
(***************************************************************************)
C13_PausedIsQuiet ==
    /\ []((pc = "mainloop" /\ ~running) =>
            /\ ~video.isOpened
            /\ \A i \in 1..Len(Handles) : ~Handles[i].isOpened
            /\ after = 0)
    /\ [][ (pc = "mainloop" /\ ~running /\ ~destroyed /\ running') =>
             /\ ev'.op = "resume"
             /\ Has(ev'.calls, "open")
             /\ ~Has(ev'.calls, "showerror")
             /\ video' # video
             /\ video'.opens = 1
             /\ video'.isOpened
             /\ after' = 1
             /\ StepScheduled
             /\ dialog' = "none" ]_vars
    /\ [][ (pc = "mainloop" /\ ~running /\ ev'.op # "resume") => ~running' ]_vars

\* the session was paused by a detection and a resume has put it back to scanning
C13_Witness ==
    /\ ev.op = "resume"
    /\ running
    /\ video.isOpened
    /\ after = 1
    /\ Len(retired) >= 1
    /\ retired[Len(retired)].releases = 1
    /\ decoded_history # <<>>

(***************************************************************************)
(* C14: with decode-scale 4.0 and display-scale 0.5 every polygon point    *)
(* that is drawn is the detected point times 0.125 (one eighth), cut to an *)
(* integer pixel; in general the factor is display-scale / decode-scale.   *)
(***************************************************************************)
C14_PointsScaledByOneEighth ==
    (Has(ev.calls, "render") /\ ev.frame.retval) =>
        /\ Len(frame_label.outlines) = Len(ev.frame.pts)
        /\ \A k \in 1..Len(ev.frame.pts) : \A i \in 1..Len(ev.frame.pts[k]) : \A c \in 1..2 :
             LET x == ev.frame.pts[k][i][c]
                 y == frame_label.outlines[k][i][1][c]
             IN  /\ 8 * y <= x /\ x < 8 * y + 8
                 /\ y * (DisplayScaleDen * DecodeScaleNum) <= x * (DisplayScaleNum * DecodeScaleDen)
                 /\ x * (DisplayScaleNum * DecodeScaleDen) < (y + 1) * (DisplayScaleDen * DecodeScaleNum)

\* a frame with two detected polygons has been displayed, one point of which is not a multiple of 8
C14_Witness ==
    /\ Has(ev.calls, "render")
    /\ ev.frame.retval
    /\ Len(frame_label.outlines) = 2
    /\ ev.frame.pts[1][1][1] = 9
    /\ frame_label.outlines[1][1][1] = <<1, 1>>

\* the cv2.line calls of one polygon form a closed outline of the scaled points:
\* each edge starts where the one before ends, the last ends where the first starts
ClosedOutline(edges, bbox) ==
    /\ Len(edges) = Len(bbox)
    /\ \A i \in 1..Len(edges) :
         /\ edges[i][1] = <<ScaleCoord(bbox[i][1]), ScaleCoord(bbox[i][2])>>
         /\ edges[i][2] = edges[(i % Len(edges)) + 1][1]

(***************************************************************************)
(* C15: every tick that reads a frame successfully and for which the       *)
(* detector reports polygons displays the frame with each polygon drawn as *)
(* a closed outline, the tick of a new detection included.                 *)
(***************************************************************************)
C15_PolygonsAlwaysDrawn ==
    [][ (StepReadOk /\ ev'.frame.retval) =>
          /\ Has(ev'.calls, "render")
          /\ frame_label'.shown
          /\ Len(frame_label'.outlines) = Len(ev'.frame.pts)
          /\ \A k \in 1..Len(ev'.frame.pts) :
               ClosedOutline(frame_label'.outlines[k], ev'.frame.pts[k]) ]_vars

\* C15 for the ticks that make no detection: there the frame is displayed
\* with every polygon drawn as a closed outline
C15_DrawnWhenNothingDecoded ==
    [][ (StepReadOk /\ ev'.frame.retval /\ FrameTexts(ev'.frame) = <<>>) =>
          /\ Has(ev'.calls, "render")
          /\ frame_label'.shown
          /\ Len(frame_label'.outlines) = Len(ev'.frame.pts)
          /\ \A k \in 1..Len(ev'.frame.pts) :
               ClosedOutline(frame_label'.outlines[k], ev'.frame.pts[k]) ]_vars

(***************************************************************************)
(* C16: at most one tick is pending in every reachable state, and whenever *)
(* the session is scanning and the window is not closed (no handler is     *)
(* running between two steps) exactly one tick is pending.                 *)
(***************************************************************************)
C16_OneTickPending ==
    /\ after <= 1
    /\ (pc = "mainloop" /\ running /\ ~destroyed) => after = 1
    /\ Cardinality({i \in 1..Len(ev.calls) : ev.calls[i] \in {"after10", "after200"}}) <= 1

\* a resume click while scanning, after a failed resume and a successful one, leaves one tick pending
C16_Witness ==
    /\ ev.op = "resume"
    /\ ev.calls = <<>>
    /\ running
    /\ after = 1
    /\ Len(retired) >= 2
    /\ retired[Len(retired)].opens = 0

(***************************************************************************)
(* C17: whenever a frame is read the memo is empty, and it is empty in     *)
(* every scanning state; it is set only by a detection, which pauses, and  *)
(* a successful resume clears it.  So every successfully read frame that   *)
(* decodes to a non-empty text is a new detection that pauses the session: *)
(* the branch for a text identical to the memo is never taken.             *)
(***************************************************************************)
C17_MemoEmptyWhileScanning ==
    /\ []((pc = "mainloop" /\ running) => last_result = <<>>)
    /\ []((Has(ev.calls, "read") \/ Has(ev.calls, "read_released")) => ev.memo = <<>>)
    /\ []((Has(ev.calls, "read") /\ ev.frame.ok /\ FrameTexts(ev.frame) # <<>>) =>
            /\ Has(ev.calls, "showinfo")
            /\ ~running
            /\ last_result = Newest(ev.frame))
    /\ [][ last_result' # last_result =>
             \/ /\ last_result' # <<>>
                /\ Has(ev'.calls, "showinfo")
                /\ ~running'
             \/ /\ last_result' = <<>>
                /\ ev'.op = "resume"
                /\ Has(ev'.calls, "open")
                /\ running' ]_vars

\* after a detection and a resume, a timer tick reads a frame while the memo is empty
C17_Witness ==
    /\ ev.op = "tick"
    /\ Has(ev.calls, "read")
    /\ ev.memo = <<>>
    /\ running
    /\ last_result = <<>>
    /\ appended # <<>>

(***************************************************************************)
(* C18: a resume click while the session is scanning does nothing: no      *)
(* camera is opened, the memo, status, history and displayed frame are     *)
(* unchanged, and no tick is run or scheduled.                             *)
(***************************************************************************)
C18_ResumeWhileScanningIsNoOp ==
    [][ (ev'.op = "resume" /\ running) =>
          /\ ev'.calls = <<>>
          /\ UNCHANGED <<pc, destroyed, dialog, running, video, retired, last_result,
                         status_var, decoded_history, history_size, frame_label, after,
                         appended, prevNewest, allBlank>> ]_vars

\* a resume click arrived while scanning, with a tick pending and a read failure on display
C18_Witness ==
    /\ ev.op = "resume"
    /\ ev.calls = <<>>
    /\ running
    /\ video.isOpened
    /\ after = 1
    /\ status_var = StatusReadFailed

(***************************************************************************)
(* C19: the history changes only in a step that pauses the session by a    *)
(* detection, and every such step appends exactly one entry; so the        *)
(* entries ever appended are as many as the transitions to PAUSED, and the *)
(* history is always the most recent of them, in order.                    *)
(***************************************************************************)
C19_HistoryOnlyByDetection ==
    /\ [][ LET toPaused == ~running' /\ (running \/ Has(ev'.calls, "read")
                                                 \/ Has(ev'.calls, "read_released"))
           IN  /\ toPaused => /\ StepDecoded
                              /\ AppendedOne(Last(FrameTexts(ev'.frame)))
               /\ ~toPaused => /\ decoded_history' = decoded_history
                               /\ appended' = appended ]_vars
    /\ [](\E k \in 0..Len(appended) : decoded_history = LastN(appended, k))
    /\ [](Len(appended) <= Len(retired) + 1)

\* two detections and two resumes later the history still holds both entries, while scanning
C19_Witness ==
    /\ running
    /\ ev.op = "tick"
    /\ Len(appended) = 2
    /\ decoded_history = appended
    /\ Len(retired) >= 2

====
